---- MODULE Spec2Model ----
(***************************************************************************)
(* Model of the media processing queue of services/media_processor.py:     *)
(* MediaProcessor (start, stop, _enqueue, _worker), the asyncio.Queue it   *)
(* owns, the futures handed to submitters and the external tool processes  *)
(* launched by process_photo / process_video.                              *)
(*                                                                         *)
(* Every action is one step of an asyncio task: the code that runs between *)
(* two suspension points (await) runs atomically on the event loop.        *)
(*                                                                         *)
(* Spec and FairSpec follow the processor, its queue and its tasks with    *)
(* abstract outcomes. JobSpec follows one iteration of _worker with its    *)
(* data: what the probes and ffmpeg return and print, and what             *)
(* process_video computes from it.                                         *)
(***************************************************************************)
EXTENDS Integers, Sequences, FiniteSets, TLC

\* ---------------------------------------------------------------- bounds
MaxJobs == 3          \* number of _enqueue calls explored
MaxWorkers == 2       \* number of worker tasks that can be created
MaxAbandons == 1      \* number of submitters whose task is cancelled
MaxQueueMaxsize == 2  \* largest configured queue_maxsize explored
MaxOutputLen == 3     \* chunks in what the bitrate probe prints
MaxDigits == 7        \* digits in what the bitrate probe prints
MaxTextLen == 2       \* characters in what the audio probe and ffmpeg print
MaxHandlers == 2      \* concurrent _process_file calls of one user
MaxCalls == 5         \* _process_file calls explored

Jobs == 1..MaxJobs
Workers == 1..MaxWorkers
Kinds == {"photo", "video"}

VARIABLES
    maxsize,       \* asyncio.Queue(maxsize=queue_maxsize)
    queue,         \* Queue._queue: jobs held by the queue, head first
    putters,       \* Queue._putters: producers suspended in put(), pending only
    getters,       \* Queue._getters: workers suspended in get(), pending only
    worker_task,   \* MediaProcessor._worker_task: 0 is None, else a worker id
    shutdown,      \* MediaProcessor._shutdown.is_set()
    wpc,           \* position of each worker task
    wjob,          \* the job a worker holds (0: none)
    must_cancel,   \* Task.cancel() requested and not yet delivered
    nextJob,       \* id of the next _enqueue call (ids follow call order)
    kind,          \* MediaJob.kind of a job object while it lives, else "none"
    pstate,        \* position of each _enqueue call
    future,        \* state of MediaJob.future
    resolutions,   \* how many times a future was given an outcome
    origin,        \* the job whose transform gave a future its outcome (0: none)
    tool,          \* the external process currently serving a job
    stage,         \* which invocation of the transform the job is at
    stopPc,        \* position of the stop() call
    stopTarget,    \* the task stop() awaits
    atStop,        \* jobs held, and producers inside put(), at the last stop() call
    abandons       \* submitters cancelled so far

\* One iteration of _worker seen with its data: the job's kind, what each
\* external process returned and printed, and what the transform computed.
VARIABLES
    wstep,           \* where the iteration is: "get", "bitrate", "audio",
                     \* "ffmpeg" (the invocation awaited) or "resolved"
    job_kind,        \* job.kind of the job dequeued
    returncode,      \* process.returncode of the last process
    stdout,          \* what the last process printed to standard output
    stderr,          \* what the last process printed to standard error
    bitrate,         \* process_video: value returned by _probe_bitrate
    target_bitrate,  \* process_video: target_bitrate
    has_audio,       \* process_video: value returned by _probe_has_audio
    speed_factor,    \* process_video: speed_factor, in units of 0.00001
    cmd,             \* process_video: what the ffmpeg command line asks for
    job_future,      \* job.future with the outcome the worker bound to it
    received,        \* what `await future` gave the _enqueue call
    prev             \* kind and outcome of the job of the previous iteration

jvars == <<wstep, job_kind, returncode, stdout, stderr, bitrate, target_bitrate,
           has_audio, speed_factor, cmd, job_future, received, prev>>

\* The file handler _process_file of handlers/files.py, for one user without
\* a paid plan, and the row of that user in the users table.
VARIABLES
    free_remaining,  \* users.free_remaining of the user
    hpc,             \* what each handler call awaits ("idle": not running)
    hfiles,          \* which of its files (input, output) exist on disk
    has_output,      \* output_path of the call is not None
    hend,            \* how the last call of the handler ended
    delivered,       \* files sent back to the user so far
    calls            \* calls of _process_file so far

hvars == <<free_remaining, hpc, hfiles, has_output, hend, delivered, calls>>

Handlers == 1..MaxHandlers

\* `free_remaining INTEGER DEFAULT 3`, and `VALUES (?, ?, 3)` of add_user
DefaultCredits == 3

\* No handler call is running and the user has the credits of a new user.
HandlersAtRest ==
    /\ free_remaining = DefaultCredits
    /\ hpc = [h \in Handlers |-> "idle"]
    /\ hfiles = [h \in Handlers |-> {}]
    /\ has_output = [h \in Handlers |-> FALSE]
    /\ hend = [h \in Handlers |-> "none"]
    /\ delivered = 0
    /\ calls = 0

\* No command line has been built.
NoCmd == [an |-> FALSE, atempo |-> 0, setpts |-> 0, bv |-> 0]

vars == <<maxsize, queue, putters, getters, worker_task, shutdown, wpc, wjob,
          must_cancel, nextJob, kind, pstate, future, resolutions, tool, stage,
          stopPc, stopTarget, atStop,
          abandons, origin, jvars, hvars>>

\* The variables of the processor
pvars == <<maxsize, queue, putters, getters, worker_task, shutdown, wpc, wjob,
           must_cancel, nextJob, kind, pstate, future, resolutions, tool, stage,
           stopPc, stopTarget, atStop, abandons, origin>>

\* A future nobody created yet, and a future created by _enqueue
NoFuture ==
    [state |-> "none", exc |-> "none", code |-> "none", text |-> <<>>,
     at |-> "none"]
PendingFuture == [NoFuture EXCEPT !.state = "pending"]

\* The worker is suspended in queue.get() and no job has been taken.
JobAtRest ==
    /\ wstep = "get"
    /\ job_kind = "none"
    /\ returncode = "none"
    /\ stdout = <<>>
    /\ stderr = <<>>
    /\ bitrate = 0
    /\ target_bitrate = 0
    /\ has_audio = FALSE
    /\ speed_factor = 0
    /\ cmd = NoCmd
    /\ job_future = NoFuture
    /\ received = NoFuture
    /\ prev = [kind |-> "none", state |-> "none"]

WorkerDone == {"cancelled", "exited", "crashed"}
WorkerAlive == {"created", "getwait", "getwoken", "spawning", "communicate"}
ToolLive == {"running"}

\* ------------------------------------------------------- asyncio.Queue
\* full() that lets one job too many in (`>` for `>=`)
FullAbove(q) == IF maxsize <= 0 THEN FALSE ELSE Len(q) > maxsize

\* Queue.full()
Full(q) == IF maxsize <= 0 THEN FALSE ELSE Len(q) >= maxsize

\* Remove the element x from the sequence s
Remove(s, x) == SelectSeq(s, LAMBDA y : y # x)

Range(s) == {s[i] : i \in 1..Len(s)}

Init ==
    /\ maxsize \in 1..MaxQueueMaxsize
    /\ queue = <<>>
    /\ putters = <<>>
    /\ getters = <<>>
    /\ worker_task = 0
    /\ shutdown = FALSE
    /\ wpc = [w \in Workers |-> "unborn"]
    /\ wjob = [w \in Workers |-> 0]
    /\ must_cancel = [w \in Workers |-> FALSE]
    /\ nextJob = 1
    /\ kind = [j \in Jobs |-> "none"]
    /\ pstate = [j \in Jobs |-> "new"]
    /\ future = [j \in Jobs |-> "none"]
    /\ resolutions = [j \in Jobs |-> 0]
    /\ origin = [j \in Jobs |-> 0]
    /\ tool = [j \in Jobs |-> "none"]
    /\ stage = [j \in Jobs |-> "none"]
    /\ stopPc = "idle"
    /\ stopTarget = 0
    /\ atStop = [held |-> {}, putting |-> {}]
    /\ abandons = 0
    /\ JobAtRest
    /\ HandlersAtRest


\* ---------------------------------------------------------- the worker
\* The first invocation of a transform: process_video probes first.
FirstStage(k) == IF k = "video" THEN "bitrate" ELSE "ffmpeg"

\* _worker without its `if not job.future.done()` guards
FutureNeverDone(j) == FALSE

\* `if not job.future.done()` of _worker
FutureDone(j) == future[j] # "pending"

\* get_nowait() that forgets `self._wakeup_next(self._putters)`
TakeJobNoWake(w, t, st) ==
    LET j == Head(queue) IN
    /\ queue' = Tail(queue)
    /\ wpc' = [wpc EXCEPT ![w] = "spawning"]
    /\ wjob' = [wjob EXCEPT ![w] = j]
    /\ tool' = [t EXCEPT ![j] = "running"]
    /\ stage' = [st EXCEPT ![j] = FirstStage(kind[j])]
    /\ UNCHANGED <<getters, putters, pstate>>

\* Queue.get() with an item available, then the transform up to its first
\* suspension: get_nowait() pops the head and wakes the first pending putter,
\* the transform spawns its first external process (create_subprocess_exec).
\* t and st are the tool and stage maps the step starts from.
TakeJob(w, t, st) ==
    LET j == Head(queue) IN
    /\ queue' = Tail(queue)
    /\ IF putters # <<>>
         THEN /\ putters' = Tail(putters)
              /\ pstate' = [pstate EXCEPT ![Head(putters)] = "putwoken"]
         ELSE UNCHANGED <<putters, pstate>>
    /\ wpc' = [wpc EXCEPT ![w] = "spawning"]
    /\ wjob' = [wjob EXCEPT ![w] = j]
    /\ tool' = [t EXCEPT ![j] = "running"]
    /\ stage' = [st EXCEPT ![j] = FirstStage(kind[j])]
    /\ UNCHANGED getters

\* `job = await self.queue.get()`: suspend on an empty queue, else take.
QueueGet(w, t, st) ==
    IF queue = <<>>
      THEN /\ wpc' = [wpc EXCEPT ![w] = "getwait"]
           /\ wjob' = [wjob EXCEPT ![w] = 0]
           /\ getters' = Append(getters, w)
           /\ tool' = t
           /\ stage' = st
           /\ UNCHANGED <<queue, putters, pstate>>
      ELSE TakeJob(w, t, st)

\* `while not self._shutdown.is_set():` followed by the get.
LoopTop(w, t, st) ==
    IF shutdown
      THEN /\ wpc' = [wpc EXCEPT ![w] = "exited"]
           /\ wjob' = [wjob EXCEPT ![w] = 0]
           /\ tool' = t
           /\ stage' = st
           /\ UNCHANGED <<queue, putters, getters, pstate>>
      ELSE QueueGet(w, t, st)

\* The task created by start() runs for the first time.
WorkerBegin(w) ==
    /\ wpc[w] = "created"
    /\ ~must_cancel[w]
    /\ LoopTop(w, tool, stage)
    /\ UNCHANGED jvars
    /\ UNCHANGED hvars
    /\ UNCHANGED <<origin, maxsize, worker_task, shutdown, must_cancel, nextJob, kind,
                   future, resolutions, stopPc, stopTarget, atStop, abandons>>

\* The getter future was resolved by a put: get() re-tests empty() and takes.
WorkerGetResume(w) ==
    /\ wpc[w] = "getwoken"
    /\ ~must_cancel[w]
    /\ QueueGet(w, tool, stage)
    /\ UNCHANGED jvars
    /\ UNCHANGED hvars
    /\ UNCHANGED <<origin, maxsize, worker_task, shutdown, must_cancel, nextJob, kind,
                   future, resolutions, stopPc, stopTarget, atStop, abandons>>

\* create_subprocess_exec returned: the worker suspends in communicate().
WorkerSpawned(w) ==
    /\ wpc[w] = "spawning"
    /\ ~must_cancel[w]
    /\ wpc' = [wpc EXCEPT ![w] = "communicate"]
    /\ UNCHANGED jvars
    /\ UNCHANGED hvars
    /\ UNCHANGED <<origin, maxsize, queue, putters, getters, worker_task, shutdown, wjob,
                   must_cancel, nextJob, kind, pstate, future, resolutions, tool,
                   stage, stopPc, stopTarget, atStop, abandons>>

\* The external process ends on its own, with exit code 0 or not.
ProcExit(j, code) ==
    /\ tool[j] = "running"
    /\ tool' = [tool EXCEPT ![j] = code]
    /\ UNCHANGED jvars
    /\ UNCHANGED hvars
    /\ UNCHANGED <<origin, maxsize, queue, putters, getters, worker_task, shutdown, wpc,
                   wjob, must_cancel, nextJob, kind, pstate, future, resolutions,
                   stage, stopPc, stopTarget, atStop, abandons>>

\* _worker that resolves the oldest unresolved future, not the job's own
OldestPendingFuture(j) ==
    LET P == {i \in Jobs : future[i] = "pending"} IN
    IF P = {} THEN j ELSE CHOOSE i \in P : \A k \in P : i <= k

\* job.future: the future that the _enqueue call which built job j created
\* for it and awaits
JobFuture(j) == j

\* The outcome _worker binds to the future of a finished job:
\* set_result on exit code 0, set_exception(MediaProcessingError) otherwise.
Outcome(code) == IF code = "exit0" THEN "result" ELSE "exception"

\* _worker whose `except Exception` resolves the future and raises again: a
\* failed transform ends the task.
FinishJobReraise(w, j) ==
    /\ kind' = [kind EXCEPT ![j] = "none"]
    /\ IF FutureDone(JobFuture(j))
         THEN UNCHANGED <<future, resolutions, origin>>
         ELSE /\ future' = [future EXCEPT ![JobFuture(j)] = Outcome(tool[j])]
              /\ resolutions' = [resolutions EXCEPT ![JobFuture(j)] = @ + 1]
              /\ origin' = [origin EXCEPT ![JobFuture(j)] = j]
    /\ IF tool[j] = "exit1"
         THEN /\ wpc' = [wpc EXCEPT ![w] = "crashed"]
              /\ wjob' = [wjob EXCEPT ![w] = 0]
              /\ tool' = [tool EXCEPT ![j] = "none"]
              /\ stage' = [stage EXCEPT ![j] = "done"]
              /\ UNCHANGED <<queue, putters, getters, pstate>>
         ELSE LoopTop(w, [tool EXCEPT ![j] = "none"], [stage EXCEPT ![j] = "done"])

\* _worker that puts a failed job back into the queue instead of resolving it
FinishJobRetry(w, j) ==
    IF tool[j] = "exit1" /\ ~Full(queue)
      THEN /\ queue' = Append(queue, j)
           /\ wpc' = [wpc EXCEPT ![w] = "getwoken"]
           /\ wjob' = [wjob EXCEPT ![w] = 0]
           /\ tool' = [tool EXCEPT ![j] = "none"]
           /\ UNCHANGED <<putters, getters, pstate, stage, kind, future,
                          resolutions, origin>>
      ELSE /\ kind' = [kind EXCEPT ![j] = "none"]
           /\ IF FutureDone(JobFuture(j))
                THEN UNCHANGED <<future, resolutions, origin>>
                ELSE /\ future' = [future EXCEPT ![JobFuture(j)] = Outcome(tool[j])]
                     /\ resolutions' = [resolutions EXCEPT ![JobFuture(j)] = @ + 1]
                     /\ origin' = [origin EXCEPT ![JobFuture(j)] = j]
           /\ LoopTop(w, [tool EXCEPT ![j] = "none"], [stage EXCEPT ![j] = "done"])

\* _worker without its `if not job.future.done()` tests: set_result raises
\* InvalidStateError on a done future, set_exception in the handler raises it
\* again, and the task ends.
FinishJobUnguarded(w, j) ==
    IF FutureDone(JobFuture(j))
      THEN /\ wpc' = [wpc EXCEPT ![w] = "crashed"]
           /\ wjob' = [wjob EXCEPT ![w] = 0]
           /\ tool' = [tool EXCEPT ![j] = "none"]
           /\ stage' = [stage EXCEPT ![j] = "done"]
           /\ kind' = [kind EXCEPT ![j] = "none"]
           /\ UNCHANGED <<queue, putters, getters, pstate, future, resolutions,
                          origin>>
      ELSE /\ kind' = [kind EXCEPT ![j] = "none"]
           /\ future' = [future EXCEPT ![JobFuture(j)] = Outcome(tool[j])]
           /\ resolutions' = [resolutions EXCEPT ![JobFuture(j)] = @ + 1]
           /\ origin' = [origin EXCEPT ![JobFuture(j)] = j]
           /\ LoopTop(w, [tool EXCEPT ![j] = "none"], [stage EXCEPT ![j] = "done"])

\* The end of one iteration of _worker for job j, whose transform ended with
\* tool[j]: the future is resolved unless it is done (set_result, or
\* set_exception under `except Exception`), `finally` runs task_done(), and
\* the loop goes round. The job object is dropped.
FinishJob(w, j) ==
    /\ kind' = [kind EXCEPT ![j] = "none"]
    /\ IF FutureDone(JobFuture(j))
         THEN UNCHANGED <<future, resolutions, origin>>
         ELSE /\ future' = [future EXCEPT ![JobFuture(j)] = Outcome(tool[j])]
              /\ resolutions' = [resolutions EXCEPT ![JobFuture(j)] = @ + 1]
              /\ origin' = [origin EXCEPT ![JobFuture(j)] = j]
    /\ LoopTop(w, [tool EXCEPT ![j] = "none"], [stage EXCEPT ![j] = "done"])

\* communicate() returned. A probe of process_video is followed by the next
\* invocation whatever its exit code; the exit code of the transform itself
\* decides the job.
WorkerProcDone(w) ==
    LET j == wjob[w] IN
    /\ wpc[w] = "communicate"
    /\ ~must_cancel[w]
    /\ tool[j] \in {"exit0", "exit1"}
    /\ IF stage[j] \in {"bitrate", "audio"}
         THEN /\ stage' = [stage EXCEPT ![j] =
                              IF stage[j] = "bitrate" THEN "audio" ELSE "ffmpeg"]
              /\ tool' = [tool EXCEPT ![j] = "running"]
              /\ wpc' = [wpc EXCEPT ![w] = "spawning"]
              /\ UNCHANGED <<queue, putters, getters, wjob, pstate, future,
                             resolutions, origin, kind>>
         ELSE FinishJob(w, j)
    /\ UNCHANGED jvars
    /\ UNCHANGED hvars
    /\ UNCHANGED <<maxsize, worker_task, shutdown, must_cancel, nextJob, stopPc,
                   stopTarget, atStop, abandons>>

\* CancelledError is thrown into the worker at its suspension point. It is no
\* Exception, so `except Exception` lets it pass: the future of the job in
\* flight is left as it is. Cancelled inside create_subprocess_exec the
\* transport is closed, which kills the process; cancelled inside
\* communicate() nothing touches the process.
WorkerCancelled(w) ==
    /\ must_cancel[w]
    /\ wpc[w] \in WorkerAlive
    /\ must_cancel' = [must_cancel EXCEPT ![w] = FALSE]
    /\ wjob' = [wjob EXCEPT ![w] = 0]
    /\ tool' = IF wpc[w] = "spawning" THEN [tool EXCEPT ![wjob[w]] = "none"]
               ELSE tool
    /\ IF wjob[w] # 0
         THEN /\ kind' = [kind EXCEPT ![wjob[w]] = "none"]
              /\ stage' = [stage EXCEPT ![wjob[w]] = "aborted"]
         ELSE UNCHANGED <<kind, stage>>
    /\ IF wpc[w] = "getwoken" /\ queue # <<>> /\ Remove(getters, w) # <<>>
         THEN /\ getters' = Tail(Remove(getters, w))
              /\ wpc' = [wpc EXCEPT ![w] = "cancelled",
                                    ![Head(Remove(getters, w))] = "getwoken"]
         ELSE /\ getters' = Remove(getters, w)
              /\ wpc' = [wpc EXCEPT ![w] = "cancelled"]
    /\ UNCHANGED jvars
    /\ UNCHANGED hvars
    /\ UNCHANGED <<origin, maxsize, queue, putters, worker_task, shutdown, nextJob,
                   pstate, future, resolutions, stopPc, stopTarget, atStop,
                   abandons>>

\* ------------------------------------------------------- the producers
\* Queue.put_nowait(): append, then wake the first pending getter.
PutNowait(j) ==
    /\ queue' = Append(queue, j)
    /\ pstate' = [pstate EXCEPT ![j] = "awaitfut"]
    /\ IF getters # <<>>
         THEN /\ getters' = Tail(getters)
              /\ wpc' = [wpc EXCEPT ![Head(getters)] = "getwoken"]
         ELSE UNCHANGED <<getters, wpc>>

\* `await self.queue.put(job)`: `while self.full()` suspends the caller on a
\* new putter future at the tail of _putters, else put_nowait().
QueuePut(j) ==
    IF Full(queue)
      THEN /\ putters' = Append(putters, j)
           /\ pstate' = [pstate EXCEPT ![j] = "putwait"]
           /\ UNCHANGED <<queue, getters, wpc>>
      ELSE /\ PutNowait(j)
           /\ UNCHANGED putters

\* _enqueue is called (enqueue_photo / enqueue_video): the future and the job
\* are created and put() runs up to its first suspension.
Enqueue(k) ==
    LET j == nextJob IN
    /\ nextJob <= MaxJobs
    /\ nextJob' = nextJob + 1
    /\ kind' = [kind EXCEPT ![j] = k]
    /\ future' = [future EXCEPT ![j] = "pending"]
    /\ QueuePut(j)
    /\ UNCHANGED jvars
    /\ UNCHANGED hvars
    /\ UNCHANGED <<origin, maxsize, worker_task, shutdown, wjob, must_cancel, resolutions,
                   tool, stage, stopPc, stopTarget, atStop, abandons>>

\* A producer whose putter future was resolved runs again: put() re-tests
\* full(), so it may have to wait again, behind later putters.
PutResume(j) ==
    /\ pstate[j] = "putwoken"
    /\ QueuePut(j)
    /\ UNCHANGED jvars
    /\ UNCHANGED hvars
    /\ UNCHANGED <<origin, maxsize, worker_task, shutdown, wjob, must_cancel, nextJob,
                   kind, future, resolutions, tool, stage, stopPc, stopTarget,
                   atStop, abandons>>

\* `return await future`: the caller gets the result or the exception.
EnqueueReturn(j) ==
    /\ pstate[j] = "awaitfut"
    /\ future[j] \in {"result", "exception"}
    /\ pstate' = [pstate EXCEPT ![j] =
                     IF future[j] = "result" THEN "returned" ELSE "raised"]
    /\ UNCHANGED jvars
    /\ UNCHANGED hvars
    /\ UNCHANGED <<origin, maxsize, queue, putters, getters, worker_task, shutdown, wpc,
                   wjob, must_cancel, nextJob, kind, future, resolutions, tool,
                   stage, stopPc, stopTarget, atStop, abandons>>

\* The task running _enqueue is cancelled by its owner. Suspended in put(),
\* the putter is withdrawn (a putter that was already woken passes the wake-up
\* on when the queue has room); suspended on the future, the future is
\* cancelled while the job stays where it is. The request and the delivery of
\* the CancelledError are taken as one step.
Abandon(j) ==
    /\ abandons < MaxAbandons
    /\ abandons' = abandons + 1
    /\ \/ /\ pstate[j] = "putwait"
          /\ putters' = Remove(putters, j)
          /\ pstate' = [pstate EXCEPT ![j] = "abandoned"]
          /\ kind' = [kind EXCEPT ![j] = "none"]
          /\ UNCHANGED <<future, resolutions>>
       \/ /\ pstate[j] = "putwoken"
          /\ IF ~Full(queue) /\ putters # <<>>
               THEN /\ putters' = Tail(putters)
                    /\ pstate' = [pstate EXCEPT ![j] = "abandoned",
                                                ![Head(putters)] = "putwoken"]
               ELSE /\ putters' = putters
                    /\ pstate' = [pstate EXCEPT ![j] = "abandoned"]
          /\ kind' = [kind EXCEPT ![j] = "none"]
          /\ UNCHANGED <<future, resolutions>>
       \/ /\ pstate[j] = "awaitfut"
          /\ future[j] = "pending"
          /\ future' = [future EXCEPT ![j] = "cancelled"]
          /\ resolutions' = [resolutions EXCEPT ![j] = @ + 1]
          /\ pstate' = [pstate EXCEPT ![j] = "abandoned"]
          /\ UNCHANGED <<putters, kind>>
    /\ UNCHANGED jvars
    /\ UNCHANGED hvars
    /\ UNCHANGED <<origin, maxsize, queue, getters, worker_task, shutdown, wpc, wjob,
                   must_cancel, nextJob, tool, stage, stopPc, stopTarget,
                   atStop>>

\* ------------------------------------------------------ start and stop
\* start() without its `if self._worker_task is None` test
AlwaysNeedsWorker == TRUE

\* `if self._worker_task is None` of start()
NeedsWorker == worker_task = 0

\* The task start() creates
NewWorker ==
    CHOOSE w \in Workers :
        wpc[w] = "unborn" /\ \A v \in Workers : wpc[v] = "unborn" => w <= v

\* start() that leaves the shutdown event as it finds it
EventKeptByStart == shutdown

\* `if self._shutdown.is_set(): self._shutdown.clear()`: the event after start()
EventAfterStart == FALSE

\* start(): clears the shutdown event, creates the worker task when there is none.
Start ==
    /\ shutdown' = EventAfterStart
    /\ IF NeedsWorker
         THEN /\ \E w \in Workers : wpc[w] = "unborn"
              /\ worker_task' = NewWorker
              /\ wpc' = [wpc EXCEPT ![NewWorker] = "created"]
         ELSE UNCHANGED <<worker_task, wpc>>
    /\ UNCHANGED jvars
    /\ UNCHANGED hvars
    /\ UNCHANGED <<origin, maxsize, queue, putters, getters, wjob, must_cancel, nextJob,
                   kind, pstate, future, resolutions, tool, stage, stopPc,
                   stopTarget, atStop, abandons>>

\* The value of _worker_task when stop() is over
TaskAfterStop == worker_task

\* Jobs held by the queue or by a worker
Queued == Range(queue)
InFlight == {wjob[w] : w \in {v \in Workers : wpc[v] \in {"spawning", "communicate"}}}

\* Producers suspended inside put()
InPut == {j \in Jobs : pstate[j] \in {"putwait", "putwoken"}}

\* stop() up to its suspension: sets the event, cancels the worker task and
\* awaits it. Without a task, or with a task that is over, it returns at once.
StopCall ==
    /\ stopPc # "awaiting"
    /\ shutdown' = TRUE
    /\ atStop' = [held |-> Queued \cup InFlight, putting |-> InPut]
    /\ stopTarget' = worker_task
    /\ IF worker_task # 0 /\ wpc[worker_task] \in WorkerAlive
         THEN /\ must_cancel' = [must_cancel EXCEPT ![worker_task] = TRUE]
              /\ stopPc' = "awaiting"
              /\ UNCHANGED worker_task
         ELSE /\ stopPc' = "returned"
              /\ worker_task' = TaskAfterStop
              /\ UNCHANGED must_cancel
    /\ UNCHANGED jvars
    /\ UNCHANGED hvars
    /\ UNCHANGED <<origin, maxsize, queue, putters, getters, wpc, wjob, nextJob, kind,
                   pstate, future, resolutions, tool, stage, abandons>>

\* stop() that does not wait for the task it cancelled
TaskOverAtOnce(w) == TRUE

\* The awaited task is done (`await self._worker_task` can complete)
TaskOver(w) == wpc[w] \in WorkerDone

\* `await self._worker_task` completes once the task is over: stop() returns.
StopReturn ==
    /\ stopPc = "awaiting"
    /\ TaskOver(stopTarget)
    /\ stopPc' = "returned"
    /\ worker_task' = TaskAfterStop
    /\ UNCHANGED jvars
    /\ UNCHANGED hvars
    /\ UNCHANGED <<origin, maxsize, queue, putters, getters, shutdown, wpc, wjob,
                   must_cancel, nextJob, kind, pstate, future, resolutions, tool,
                   stage, stopTarget, atStop,
                   abandons>>

Next ==
    \/ Start
    \/ StopCall
    \/ StopReturn
    \/ \E k \in Kinds : Enqueue(k)
    \/ \E j \in Jobs : PutResume(j)
    \/ \E j \in Jobs : EnqueueReturn(j)
    \/ \E j \in Jobs : Abandon(j)
    \/ \E w \in Workers : WorkerBegin(w)
    \/ \E w \in Workers : WorkerGetResume(w)
    \/ \E w \in Workers : WorkerSpawned(w)
    \/ \E w \in Workers : WorkerProcDone(w)
    \/ \E w \in Workers : WorkerCancelled(w)
    \/ \E j \in Jobs, code \in {"exit0", "exit1"} : ProcExit(j, code)

Spec == Init /\ [][Next]_vars

\* The event loop runs every task that is ready, and an external process ends;
\* nothing obliges the callers to call start(), stop() or _enqueue, or to
\* cancel a submitter.
Fairness ==
    /\ WF_vars(StopReturn)
    /\ \A j \in Jobs : WF_vars(PutResume(j))
    /\ \A j \in Jobs : WF_vars(EnqueueReturn(j))
    /\ \A w \in Workers : WF_vars(WorkerBegin(w))
    /\ \A w \in Workers : WF_vars(WorkerGetResume(w))
    /\ \A w \in Workers : WF_vars(WorkerSpawned(w))
    /\ \A w \in Workers : WF_vars(WorkerProcDone(w))
    /\ \A w \in Workers : WF_vars(WorkerCancelled(w))
    /\ \A j \in Jobs : WF_vars(\E code \in {"exit0", "exit1"} : ProcExit(j, code))

FairSpec == Spec /\ Fairness

\* ------------------------------------------------------------ properties
\* A worker began processing job j
Started(j) == stage[j] # "none"

\* The submitter of job i was cancelled before the job reached the queue
Withdrawn(i) == pstate[i] = "abandoned" /\ future[i] = "pending" /\ ~Started(i)
                /\ i \notin Queued

\* stop() has returned and it had a worker task to cancel
StoppedWorker == stopPc = "returned" /\ stopTarget # 0

\* C1: the workers begin the jobs in the order of the _enqueue calls: a job is
\* begun only when every job submitted before it (and not withdrawn by its
\* submitter) has been begun.
C1_StartOrderIsSubmitOrder ==
    \A i, j \in Jobs : (i < j /\ Started(j)) => (Started(i) \/ Withdrawn(i))

C3_HeldJobResolved ==
    \A j \in Jobs :
        (j \in Queued \cup InFlight /\ worker_task # 0 /\ future[j] = "pending")
            ~> (future[j] # "pending")

\* C4: once a stop() that cancelled a worker has returned, the future of every
\* job that was queued or in flight when it was called is resolved.
C4_StopResolvesHeldJobs ==
    StoppedWorker => \A j \in atStop.held : future[j] # "pending"

\* C5: a start() that follows a stop() of a started processor leaves a worker
\* task that is alive.
C5_RestartLaunchesWorker ==
    [][(StoppedWorker /\ shutdown /\ ~shutdown')
          => (worker_task' # 0 /\ wpc'[worker_task'] \in WorkerAlive)]_vars

\* C6: a producer that was suspended in put() when stop() was called on a
\* started processor leaves put() in the end.
C6_PutterWokenByStop ==
    \A j \in Jobs :
        (j \in atStop.putting /\ j \in InPut /\ stopTarget # 0)
            ~> (j \notin InPut)

\* C7: a failed job does not end the worker: as long as stop() was never
\* called, a worker that has handled a failed job and finds jobs in the queue
\* is holding one of them or about to take one.
C7_FailureKeepsWorkerLooping ==
    (/\ \E j \in Jobs : future[j] = "exception"
     /\ stopPc = "idle"
     /\ queue # <<>>)
        => (worker_task # 0
            /\ wpc[worker_task] \in {"spawning", "communicate", "getwoken"})

\* C7 witness: with no stop(), a job failed and a job submitted after it got
\* its own result.
C7_ResultAfterFailure ==
    /\ stopPc = "idle"
    /\ \E i, j \in Jobs : i < j /\ future[i] = "exception" /\ future[j] = "result"

\* C8: no future is given an outcome twice.
C8_ResolvedAtMostOnce == \A j \in Jobs : resolutions[j] <= 1

\* C8 witness: the worker finished a job whose future its submitter had
\* cancelled, and a job whose future it resolved itself.
C8_FinishedCancelledJob ==
    /\ \E j \in Jobs : stage[j] = "done" /\ future[j] = "cancelled"
    /\ \E j \in Jobs : stage[j] = "done" /\ future[j] \in {"result", "exception"}

\* The external processes that are running
Running == {j \in Jobs : tool[j] = "running"}

\* C9: at most one external process launched by the processor is running.
C9_OneToolAtATime == Cardinality(Running) <= 1

\* C9 witness: a process is running after a stop() and a later start(), with
\* jobs of other submitters in the queue.
C9_ToolRunningAfterRestart ==
    StoppedWorker /\ ~shutdown /\ Running # {} /\ queue # <<>>

\* C10: when stop() returns after awaiting the worker, no external process
\* is running.
C10_NoToolWhenStopReturns ==
    [][(stopPc = "awaiting" /\ stopPc' = "returned") => (Running' = {})]_vars

\* C11: from the moment stop() has returned, the worker task it cancelled is
\* over and takes no further step: no dequeue, no resolution.
C11_StopReturnsAfterWorkerOver ==
    [][StoppedWorker => (/\ wpc[stopTarget] \in WorkerDone
                         /\ wpc'[stopTarget] = wpc[stopTarget]
                         /\ wjob'[stopTarget] = 0)]_vars

\* C11 witness: stop() has returned after cancelling a worker that held a
\* job, and jobs are left in the queue.
C11_StoppedWithJobsLeft ==
    StoppedWorker /\ queue # <<>> /\ \E j \in Jobs : stage[j] = "aborted"

\* Worker tasks that were created and are not over
LiveWorkers == {w \in Workers : wpc[w] \in WorkerAlive}

StageRank(s) ==
    CASE s = "none" -> 0
      [] s = "bitrate" -> 1
      [] s = "audio" -> 2
      [] s = "ffmpeg" -> 3
      [] OTHER -> 4

\* C19: a job that a worker has begun never goes back into the queue and
\* never goes back to an earlier invocation: it is handed to a transform once.
C19_NoRetry ==
    [][\A j \in Jobs :
          Started(j) => (/\ j \notin Range(queue')
                         /\ StageRank(stage'[j]) >= StageRank(stage[j]))]_vars

\* C19 witness: a job failed, its submitter got the error, and the worker is
\* on a later job.
C19_FailedOnceAndMovedOn ==
    \E i, j \in Jobs : /\ i # j
                       /\ pstate[i] = "raised"
                       /\ stage[i] = "done"
                       /\ j \in InFlight

\* C20: the outcome a submit call receives was produced by the transform of
\* the job that this call submitted, and no future ever holds the outcome of
\* another call's job.
C20_OwnOutcome ==
    /\ \A j \in Jobs : origin[j] \in {0, j}
    /\ \A j \in Jobs : pstate[j] \in {"returned", "raised"} => origin[j] = j

\* C20 witness: two submits have both returned, one with the result and one
\* with the error of its own job.
C20_TwoCallersDifferentOutcomes ==
    \E i, j \in Jobs : /\ i # j
                       /\ pstate[i] = "returned"
                       /\ pstate[j] = "raised"
                       /\ origin[i] = i
                       /\ origin[j] = j

\* C22: while a submit call is suspended in put() on the full queue, no job of
\* a later submit call is in the queue or has been begun.
C22_NoOvertakingUnderBackpressure ==
    \A i, j \in Jobs :
        (i < j /\ i \in InPut) => (j \notin Queued /\ ~Started(j))

\* C24: a submit call made when stop() has returned and no start() followed
\* fails at once: it neither enqueues its job nor suspends.
C24_SubmitAfterStopFails ==
    [][\A j \in Jobs :
          (stopPc = "returned" /\ shutdown /\ pstate[j] = "new"
           /\ pstate'[j] # "new")
              => pstate'[j] = "raised"]_vars

\* C25: a job whose submitter cancelled its future stays in the queue until a
\* worker takes it, its future keeps the cancellation and no other outcome,
\* and no worker task ends on an error.
C25_CancelledJobStillProcessed ==
    /\ \A j \in Jobs :
          future[j] = "cancelled"
              => /\ j \in Queued \/ Started(j)
                 /\ resolutions[j] = 1
                 /\ origin[j] = 0
    /\ \A w \in Workers : wpc[w] # "crashed"

\* C25 witness: the worker finished a job whose future was cancelled and has
\* begun a later job.
C25_NextJobAfterCancelledOne ==
    \E i, j \in Jobs : /\ i < j
                       /\ future[i] = "cancelled"
                       /\ stage[i] = "done"
                       /\ j \in InFlight
                       /\ stopPc = "idle"

\* C27: a stop() that finds no task, or a task that is over, returns at once
\* and leaves no worker alive; while stop() has returned and the event is
\* set no worker is alive; and a start() that finds no task creates the
\* worker task with the event cleared.
C27_StopSafeInAnyState ==
    /\ []((stopPc = "returned" /\ shutdown) => LiveWorkers = {})
    /\ [][(StopCall /\ (worker_task = 0 \/ TaskOver(worker_task)))
            => (stopPc' = "returned" /\ LiveWorkers' = {})]_vars
    /\ [][(Start /\ worker_task = 0)
            => (/\ worker_task' # 0
                /\ wpc'[worker_task'] = "created"
                /\ ~shutdown')]_vars

\* C27 witness: stop() was called before any start(), start() followed, and
\* the worker it launched is processing a job.
C27_WorkerLaunchedAfterEarlyStop ==
    /\ stopPc = "returned"
    /\ stopTarget = 0
    /\ worker_task # 0
    /\ wpc[worker_task] \in {"spawning", "communicate"}
    /\ ~shutdown

\* ------------------------------------------- one iteration, with its data
\* What a process prints is a sequence of chunks. The bitrate probe prints
\* digits, a sign, white space or something else; the other processes print
\* text and white space.
DigitChunks == {"3", "00000"}
NumberChunks == DigitChunks \cup {"-", " ", "x"}
TextChunks == {"a", " "}
ExitCodes == {"exit0", "exit1"}
AnyKind == Kinds \cup {"other"}

DefaultBitrate == 2000000
MinBitrate == 300000
JitterPercent == 5
Jitters == {-JitterPercent, 0, JitterPercent}

SeqsUpTo(S, n) == UNION {[1..m -> S] : m \in 0..n}

ChunkDigits(c) == IF c = "00000" THEN 5 ELSE IF c = "3" THEN 1 ELSE 0
ChunkValue(c) == IF c = "3" THEN 3 ELSE 0

RECURSIVE DigitCount(_)
DigitCount(s) ==
    IF s = <<>> THEN 0 ELSE ChunkDigits(Head(s)) + DigitCount(Tail(s))

NumberOutputs == {s \in SeqsUpTo(NumberChunks, MaxOutputLen) : DigitCount(s) <= MaxDigits}
TextOutputs == SeqsUpTo(TextChunks, MaxTextLen)

\* str.strip(): leading and trailing white space removed
RECURSIVE LStrip(_)
LStrip(s) == IF s # <<>> /\ Head(s) = " " THEN LStrip(Tail(s)) ELSE s
RECURSIVE RStrip(_)
RStrip(s) ==
    IF s # <<>> /\ s[Len(s)] = " " THEN RStrip(SubSeq(s, 1, Len(s) - 1)) ELSE s
Strip(s) == RStrip(LStrip(s))

\* int(text) accepts an optional sign followed by digits only, and at least
\* one digit; anything else is a ValueError.
Unsigned(t) == IF t # <<>> /\ Head(t) = "-" THEN Tail(t) ELSE t
IsIntLiteral(t) ==
    /\ Unsigned(t) # <<>>
    /\ \A i \in 1..Len(Unsigned(t)) : Unsigned(t)[i] \in DigitChunks

RECURSIVE DigitsValue(_, _)
DigitsValue(s, acc) ==
    IF s = <<>> THEN acc
    ELSE DigitsValue(Tail(s), acc * (10 ^ ChunkDigits(Head(s))) + ChunkValue(Head(s)))

IntOf(t) ==
    IF t # <<>> /\ Head(t) = "-" THEN 0 - DigitsValue(Tail(t), 0)
    ELSE DigitsValue(t, 0)

\* _probe_bitrate once the process has ended
ProbeBitrate(code, out) ==
    IF code = "exit0"
      THEN IF IsIntLiteral(Strip(out)) THEN IntOf(Strip(out)) ELSE DefaultBitrate
      ELSE DefaultBitrate

\* int(x) of a product b * (1 + d/100): rounds towards zero
Jittered(b, d) ==
    IF b >= 0 THEN b + ((b * d) \div 100)
    ELSE 0 - ((0 - b) + (((0 - b) * d) \div 100))

Max(a, b) == IF a >= b THEN a ELSE b

\* target_bitrate without the floor
TargetBitrateNoFloor(b, d) == Jittered(b, d)

\* max(int(bitrate * (1 + bitrate_delta)), 300_000)
TargetBitrate(b, d) == Max(Jittered(b, d), MinBitrate)

Min(a, b) == IF a <= b THEN a ELSE b

\* speed_delta = random.uniform(-0.02, 0.02), in units of 0.00001
SpeedUnit == 100000
SpeedBand == 2000
SpeedDeltas == {0 - SpeedBand, 1234}

\* max(0.98, min(1.02, 1 + speed_delta))
SpeedFactor(sd) ==
    Max(SpeedUnit - SpeedBand, Min(SpeedUnit + SpeedBand, SpeedUnit + sd))

\* f"{speed_factor:.4f}": the factor rounded to four decimals, in units of
\* 0.0001
Format4(sf) == (sf + 5) \div 10

\* f"{1/speed_factor:.5f}": the inverse of the factor rounded to five
\* decimals, in units of 0.00001 (long division of 10^10 by sf)
Inverse5(sf) ==
    LET q1 == (10 ^ 9) \div sf
        r1 == (10 ^ 9) % sf
        q2 == (r1 * 10) \div sf
        r2 == (r1 * 10) % sf
    IN  q1 * 10 + q2 + (IF 2 * r2 >= sf THEN 1 ELSE 0)

\* An audio filter that leaves the tempo alone
AudioTempoFixed(sf) == SpeedUnit \div 10

\* The factor of `-af atempo=`
AudioTempo(sf) == Format4(sf)

\* The command line of process_video: `-vf setpts=<1/speed_factor>*PTS`,
\* `-b:v target_bitrate`, and either the audio flags with
\* `-af atempo=<speed_factor>` or `-an`.
Command(audio, sf, tb) ==
    [an |-> ~audio,
     atempo |-> IF audio THEN AudioTempo(sf) ELSE 0,
     setpts |-> Inverse5(sf),
     bv |-> tb]

\* _probe_has_audio once the process has ended:
\* bool(stdout and stdout.decode().strip()); the return code is not read.
ProbeHasAudio(code, out) == out # <<>> /\ Strip(out) # <<>>

\* The diagnostic taken from standard error alone
DiagnosticStderrOnly(err, out) == Strip(err)

\* stderr.decode().strip() or stdout.decode().strip()
Diagnostic(err, out) == IF Strip(err) # <<>> THEN Strip(err) ELSE Strip(out)

\* An exception of class exc raised at invocation `at`, as set_exception
\* leaves it in the future
Raised(exc, code, text, at) ==
    [state |-> "exception", exc |-> exc, code |-> code, text |-> text, at |-> at]

\* set_result(result)
Succeeded(at) == [PendingFuture EXCEPT !.state = "result", !.at = at]

\* A dispatch that skips a job of unknown kind
IgnoreUnknownKind == PendingFuture

\* `raise MediaProcessingError(f"Unknown job type: {job.kind}")`, caught by
\* `except Exception` and bound to the future
RaiseUnknownKind == Raised("MediaProcessingError", "none", <<>>, "dispatch")

JobInit ==
    /\ Init
    /\ maxsize = 1

\* queue.get() returns a job of kind k, whose submitter awaits its pending
\* future; the job is dispatched up to the first process it starts.
Dequeue(k) ==
    /\ wstep = "get"
    /\ job_kind' = k
    /\ received' = NoFuture
    /\ returncode' = "none"
    /\ stdout' = <<>>
    /\ stderr' = <<>>
    /\ bitrate' = 0
    /\ target_bitrate' = 0
    /\ has_audio' = FALSE
    /\ speed_factor' = 0
    /\ cmd' = NoCmd
    /\ IF k \in Kinds
         THEN /\ wstep' = FirstStage(k)
              /\ job_future' = PendingFuture
         ELSE /\ wstep' = "resolved"
              /\ job_future' = RaiseUnknownKind
    /\ UNCHANGED prev
    /\ UNCHANGED hvars
    /\ UNCHANGED <<maxsize, queue, putters, getters, worker_task, shutdown, wpc,
                   wjob, must_cancel, nextJob, kind, pstate, future,
                   resolutions, tool, stage, stopPc, stopTarget, atStop,
                   abandons, origin>>

\* create_subprocess_exec raises (the program is missing or cannot be
\* executed): nothing in the probes or in _run_subprocess catches it, so it
\* leaves process_video or process_photo and _worker binds it to the future.
CannotStart ==
    /\ wstep \in {"bitrate", "audio", "ffmpeg"}
    /\ returncode' = "nostart"
    /\ stdout' = <<>>
    /\ stderr' = <<>>
    /\ job_future' = Raised("FileNotFoundError", "none", <<>>, wstep)
    /\ wstep' = "resolved"
    /\ speed_factor' = 0
    /\ cmd' = NoCmd
    /\ UNCHANGED <<job_kind, bitrate, target_bitrate, has_audio, received, prev>>
    /\ UNCHANGED hvars
    /\ UNCHANGED <<maxsize, queue, putters, getters, worker_task, shutdown, wpc,
                   wjob, must_cancel, nextJob, kind, pstate, future,
                   resolutions, tool, stage, stopPc, stopTarget, atStop,
                   abandons, origin>>

\* The bitrate probe ended with `code` having printed `out`; process_video
\* draws the jitter d (in percent) and computes target_bitrate, then draws
\* speed_delta sd and computes speed_factor.
BitrateProbed(code, out, d, sd) ==
    /\ wstep = "bitrate"
    /\ returncode' = code
    /\ stdout' = out
    /\ bitrate' = ProbeBitrate(code, out)
    /\ target_bitrate' = TargetBitrate(ProbeBitrate(code, out), d)
    /\ speed_factor' = SpeedFactor(sd)
    /\ wstep' = "audio"
    /\ UNCHANGED <<job_kind, stderr, has_audio, cmd, job_future, received, prev>>
    /\ UNCHANGED hvars
    /\ UNCHANGED <<maxsize, queue, putters, getters, worker_task, shutdown, wpc,
                   wjob, must_cancel, nextJob, kind, pstate, future,
                   resolutions, tool, stage, stopPc, stopTarget, atStop,
                   abandons, origin>>

\* The audio probe ended with `code` having printed `out`; process_video
\* builds the ffmpeg command line. The probed bitrate is not read again.
AudioProbed(code, out) ==
    /\ wstep = "audio"
    /\ returncode' = code
    /\ stdout' = out
    /\ has_audio' = ProbeHasAudio(code, out)
    /\ cmd' = Command(ProbeHasAudio(code, out), speed_factor, target_bitrate)
    /\ bitrate' = 0
    /\ wstep' = "ffmpeg"
    /\ UNCHANGED <<job_kind, stderr, target_bitrate, speed_factor, job_future,
                   received, prev>>
    /\ UNCHANGED hvars
    /\ UNCHANGED <<maxsize, queue, putters, getters, worker_task, shutdown, wpc,
                   wjob, must_cancel, nextJob, kind, pstate, future,
                   resolutions, tool, stage, stopPc, stopTarget, atStop,
                   abandons, origin>>

\* _run_subprocess: ffmpeg ended with `code` having printed `out` and `err`;
\* _worker binds the path, or the MediaProcessingError, to the future.
TransformEnded(code, out, err) ==
    /\ wstep = "ffmpeg"
    /\ returncode' = code
    /\ stdout' = out
    /\ stderr' = err
    /\ job_future' = IF code = "exit0"
                       THEN Succeeded("ffmpeg")
                       ELSE Raised("MediaProcessingError", code,
                                   Diagnostic(err, out), "ffmpeg")
    /\ wstep' = "resolved"
    /\ speed_factor' = 0
    /\ cmd' = NoCmd
    /\ UNCHANGED <<job_kind, bitrate, target_bitrate, has_audio, received, prev>>
    /\ UNCHANGED hvars
    /\ UNCHANGED <<maxsize, queue, putters, getters, worker_task, shutdown, wpc,
                   wjob, must_cancel, nextJob, kind, pstate, future,
                   resolutions, tool, stage, stopPc, stopTarget, atStop,
                   abandons, origin>>

\* `return await future` in _enqueue gives the caller what the future holds;
\* the worker, after task_done(), is back at queue.get().
SubmitReturns ==
    /\ wstep = "resolved"
    /\ job_future.state \in {"result", "exception"}
    /\ received' = job_future
    /\ prev' = [kind |-> job_kind, state |-> job_future.state]
    /\ wstep' = "get"
    /\ UNCHANGED <<job_kind, returncode, stdout, stderr, bitrate,
                   target_bitrate, has_audio, speed_factor, cmd, job_future>>
    /\ UNCHANGED hvars
    /\ UNCHANGED <<maxsize, queue, putters, getters, worker_task, shutdown, wpc,
                   wjob, must_cancel, nextJob, kind, pstate, future,
                   resolutions, tool, stage, stopPc, stopTarget, atStop,
                   abandons, origin>>

JobNext ==
    \/ \E k \in AnyKind : Dequeue(k)
    \/ CannotStart
    \/ \E code \in ExitCodes, out \in NumberOutputs, d \in Jitters,
          sd \in SpeedDeltas :
          BitrateProbed(code, out, d, sd)
    \/ \E code \in ExitCodes, out \in TextOutputs : AudioProbed(code, out)
    \/ \E code \in ExitCodes, out \in TextOutputs, err \in TextOutputs :
          TransformEnded(code, out, err)
    \/ SubmitReturns

JobSpec == JobInit /\ [][JobNext]_vars

\* Some character of s is not white space
HasText(s) == \E i \in 1..Len(s) : s[i] # " "

\* m is s without its leading and trailing white space
IsTrimOf(m, s) ==
    /\ m # <<>> => (m[1] # " " /\ m[Len(m)] # " ")
    /\ \E a \in 0..Len(s) :
          /\ a + Len(m) <= Len(s)
          /\ SubSeq(s, a + 1, a + Len(m)) = m
          /\ \A i \in (1..a) \cup ((a + Len(m) + 1)..Len(s)) : s[i] = " "

\* C14: no failure of a probe invocation (non-zero exit, or the probe process
\* not startable) fails the job: a job's future never holds an exception
\* raised at a probe.
C14_ProbeFailureNeverFailsJob ==
    job_future.state = "exception" => job_future.at \notin {"bitrate", "audio"}

\* C15: the audio probe reports audio present exactly when it exited 0 and
\* its trimmed output is not empty.
C15_AudioIffExitZeroAndOutput ==
    (job_kind = "video" /\ wstep = "ffmpeg")
        => (has_audio <=> (returncode = "exit0" /\ HasText(stdout)))

\* C16: after the bitrate probe, target_bitrate is at least 300_000 whatever
\* was probed and drawn, and when the probe exited non-zero or printed no
\* integer the base is 2_000_000, so that the target is within the jitter of
\* 2_000_000.
C16_TargetBitrateFromDefaultAndFloored ==
    (job_kind = "video" /\ wstep \in {"audio", "ffmpeg"})
        => /\ target_bitrate >= MinBitrate
           /\ (wstep = "audio"
               /\ (returncode # "exit0" \/ ~IsIntLiteral(Strip(stdout))))
                 => /\ bitrate = DefaultBitrate
                    /\ 100 * target_bitrate >= (100 - JitterPercent) * DefaultBitrate
                    /\ 100 * target_bitrate <= (100 + JitterPercent) * DefaultBitrate

\* C16 witness: the probe printed an integer below the floor, and the target
\* is the floor.
C16_FloorApplied ==
    /\ wstep = "audio"
    /\ returncode = "exit0"
    /\ bitrate > 0
    /\ bitrate < MinBitrate
    /\ target_bitrate = MinBitrate

\* C17: a job whose kind has no transform gets its future resolved with a
\* MediaProcessingError, and the worker goes on to the next job.
C17_UnknownKindResolvedWithError ==
    /\ (job_kind \notin Kinds /\ job_kind # "none")
          => /\ job_future.state = "exception"
             /\ job_future.exc = "MediaProcessingError"
             /\ wstep \in {"resolved", "get"}
    /\ (prev.kind \notin Kinds /\ prev.kind # "none") => prev.state = "exception"

\* C17 witness: the job after one of unknown kind got its result.
C17_NextJobAfterUnknownKind ==
    /\ prev.kind = "other"
    /\ job_kind \in Kinds
    /\ job_future.state = "result"

\* C18: when ffmpeg exits non-zero, the future holds a MediaProcessingError
\* whose text is the trimmed standard error, or the trimmed standard output
\* when standard error has no text, and the submit call receives that error.
C18_ToolFailureReachesCaller ==
    /\ (wstep \in {"resolved", "get"} /\ job_future.at = "ffmpeg"
        /\ returncode = "exit1")
          => /\ job_future.state = "exception"
             /\ job_future.exc = "MediaProcessingError"
             /\ job_future.code = returncode
             /\ IF HasText(stderr)
                  THEN IsTrimOf(job_future.text, stderr)
                  ELSE IsTrimOf(job_future.text, stdout)
    /\ (wstep = "get" /\ job_future.state # "none") => received = job_future

\* C18 witness: the submit call received the error of an ffmpeg that printed
\* its diagnostic to standard output only.
C18_CallerGotStdoutDiagnostic ==
    /\ wstep = "get"
    /\ received.exc = "MediaProcessingError"
    /\ received.at = "ffmpeg"
    /\ ~HasText(stderr)
    /\ received.text = <<"a">>
    /\ Len(stdout) > 1

\* C21: the ffmpeg command line of process_video carries `-an` exactly when
\* the probe reported no audio, and then no audio filter; when audio was
\* reported, atempo times the setpts factor is 1 to the four decimals the
\* flags are written with: audio and video are retimed by the same factor.
C21_AudioFlagsFollowProbe ==
    (job_kind = "video" /\ wstep = "ffmpeg")
        => /\ cmd.an <=> ~has_audio
           /\ cmd.an => cmd.atempo = 0
           /\ has_audio => /\ cmd.atempo * cmd.setpts - 10 ^ 9 <= 10 ^ 5
                           /\ 10 ^ 9 - cmd.atempo * cmd.setpts <= 10 ^ 5

\* C21 witness: audio was reported and the command retimes it by a factor
\* other than 1.
C21_AudioRetimed ==
    /\ job_kind = "video"
    /\ wstep = "ffmpeg"
    /\ has_audio
    /\ cmd.atempo > SpeedUnit \div 10

\* --------------------------------------------- the file handler and credits
\* get_user: `is_active or row["free_remaining"] > 0`, for a user whose plan
\* is not active
IsActive == free_remaining > 0

\* consume_credit: SET free_remaining = MAX(free_remaining - 1, 0)
CreditsAfterUse == Max(free_remaining - 1, 0)

\* A cleanup that misses the output file
PathsCleanedInputOnly(h) == {"input"}

\* _cleanup_paths([input_path, output_path]): the paths that are not None
PathsCleaned(h) == {"input"} \cup (IF has_output[h] THEN {"output"} ELSE {})

\* The call of handler h ends as e with the files f on disk: `finally` runs
\* _cleanup_paths, which unlinks the paths it is given.
Finish(h, e, f) ==
    /\ hfiles' = [hfiles EXCEPT ![h] = f \ PathsCleaned(h)]
    /\ has_output' = [has_output EXCEPT ![h] = FALSE]
    /\ hend' = [hend EXCEPT ![h] = e]
    /\ hpc' = [hpc EXCEPT ![h] = "idle"]

HandlerInit ==
    /\ Init
    /\ maxsize = 1

\* The user sends a file: _process_file is called and awaits check_sub.
Call(h) ==
    /\ hpc[h] = "idle"
    /\ calls < MaxCalls
    /\ calls' = calls + 1
    /\ hpc' = [hpc EXCEPT ![h] = "check_sub"]
    /\ hend' = [hend EXCEPT ![h] = "none"]
    /\ UNCHANGED <<free_remaining, hfiles, has_output, delivered>>
    /\ UNCHANGED pvars
    /\ UNCHANGED jvars

\* check_sub returned the status read from the row. Not active: the handler
\* answers and returns. Active: input_path is chosen and the download starts.
CheckSubDone(h) ==
    /\ hpc[h] = "check_sub"
    /\ IF IsActive
         THEN /\ hpc' = [hpc EXCEPT ![h] = "download"]
              /\ UNCHANGED hend
         ELSE /\ hpc' = [hpc EXCEPT ![h] = "idle"]
              /\ hend' = [hend EXCEPT ![h] = "refused"]
    /\ UNCHANGED <<free_remaining, hfiles, has_output, delivered, calls>>
    /\ UNCHANGED pvars
    /\ UNCHANGED jvars

\* bot.download returned, or raised having written the file or not.
DownloadDone(h, ok, written) ==
    /\ hpc[h] = "download"
    /\ ok => written
    /\ IF ok
         THEN /\ hfiles' = [hfiles EXCEPT ![h] = {"input"}]
              /\ hpc' = [hpc EXCEPT ![h] = "enqueue"]
              /\ UNCHANGED <<has_output, hend>>
         ELSE Finish(h, "raised", IF written THEN {"input"} ELSE {})
    /\ UNCHANGED <<free_remaining, delivered, calls>>
    /\ UNCHANGED pvars
    /\ UNCHANGED jvars

\* processor.enqueue_photo / enqueue_video returned the output path, or raised
\* MediaProcessingError (caught: the handler answers) or something else.
EnqueueDone(h, o) ==
    /\ hpc[h] = "enqueue"
    /\ CASE o = "result" ->
              /\ hfiles' = [hfiles EXCEPT ![h] = @ \cup {"output"}]
              /\ has_output' = [has_output EXCEPT ![h] = TRUE]
              /\ hpc' = [hpc EXCEPT ![h] = "consume_credit"]
              /\ UNCHANGED hend
         [] o = "MediaProcessingError" ->
              /\ hpc' = [hpc EXCEPT ![h] = "answer"]
              /\ UNCHANGED <<hfiles, has_output, hend>>
         [] OTHER -> Finish(h, "raised", hfiles[h])
    /\ UNCHANGED <<free_remaining, delivered, calls>>
    /\ UNCHANGED pvars
    /\ UNCHANGED jvars

\* consume_credit returned after its UPDATE, or raised.
ConsumeCreditDone(h, ok) ==
    /\ hpc[h] = "consume_credit"
    /\ IF ok
         THEN /\ free_remaining' = CreditsAfterUse
              /\ hpc' = [hpc EXCEPT ![h] = "send"]
              /\ UNCHANGED <<hfiles, has_output, hend>>
         ELSE /\ Finish(h, "raised", hfiles[h])
              /\ UNCHANGED free_remaining
    /\ UNCHANGED <<delivered, calls>>
    /\ UNCHANGED pvars
    /\ UNCHANGED jvars

\* answer_document / answer_photo returned (the file is delivered) or raised.
SendDone(h, ok) ==
    /\ hpc[h] = "send"
    /\ delivered' = IF ok THEN delivered + 1 ELSE delivered
    /\ Finish(h, IF ok THEN "sent" ELSE "raised", hfiles[h])
    /\ UNCHANGED <<free_remaining, calls>>
    /\ UNCHANGED pvars
    /\ UNCHANGED jvars

\* message.answer of `except MediaProcessingError` returned or raised.
AnswerDone(h, ok) ==
    /\ hpc[h] = "answer"
    /\ Finish(h, IF ok THEN "error_answered" ELSE "raised", hfiles[h])
    /\ UNCHANGED <<free_remaining, delivered, calls>>
    /\ UNCHANGED pvars
    /\ UNCHANGED jvars

HandlerNext ==
    \/ \E h \in Handlers : Call(h)
    \/ \E h \in Handlers : CheckSubDone(h)
    \/ \E h \in Handlers, ok \in BOOLEAN, written \in BOOLEAN :
          DownloadDone(h, ok, written)
    \/ \E h \in Handlers, o \in {"result", "MediaProcessingError", "other"} :
          EnqueueDone(h, o)
    \/ \E h \in Handlers, ok \in BOOLEAN : ConsumeCreditDone(h, ok)
    \/ \E h \in Handlers, ok \in BOOLEAN : SendDone(h, ok)
    \/ \E h \in Handlers, ok \in BOOLEAN : AnswerDone(h, ok)

HandlerSpec == HandlerInit /\ [][HandlerNext]_vars

C26_DeliveriesWithinCredits ==
    /\ delivered <= DefaultCredits
    /\ free_remaining >= 0
====
